---- MODULE Spec2Model ----
(***************************************************************************)
(* Model of the tiered interview engine, TieredInterviewAgent (src/app.py) *)
(* together with the three documents it loads from and saves to the        *)
(* profile store.                                                          *)
(*                                                                         *)
(* A question set is a function from tier ranks (the integer n of the key  *)
(* "tier<n>") to tiers [status, questions]; a question is a record         *)
(* [question, field, qest]; a field is the dotted path split on ".", the   *)
(* empty sequence being the empty string.  The profile tree is the set of  *)
(* its nodes [path, kind, val]: kind "dict" for a mapping, "scalar" for    *)
(* anything else; the root mapping is implicit.                            *)
(*                                                                         *)
(* store, agent and op are the documents, one engine instance and the last *)
(* operation with its result.  agentB is a second engine instance over the *)
(* same store, session the Streamlit session state of the interview page,  *)
(* page what the recommendation page rendered, raw a general document      *)
(* whose values need not have the shape the engine expects.  Each          *)
(* specification moves the variables of the part of the program it is      *)
(* about and leaves the others alone.                                      *)
(***************************************************************************)
EXTENDS Integers, Sequences, FiniteSets, TLC

VARIABLES store, agent, op, agentB, session, page, raw

vars == <<store, agent, op, agentB, session, page, raw>>

\* ---------------------------------------------------------------- bounds
MaxTiers == 2
MaxGenQ == 2
MaxCatQ == 2
MaxMessages == 6
MaxRecs == 3
MaxSeqQ == 3
MaxKeyRank == 10
MaxRetries == 3
MaxDelay == 2
MaxFound == 4

Ranks == 1..MaxTiers
Statuses == {"", "in_process", "completed"}
Answers == {"Alice"}
NoTier == 0

\* ------------------------------------------------------- documents at rest
FieldPaths == << <<"a">>, <<"a", "b">>, <<"c", "d">>, <<"e", "f">>, << >> >>

\* the field of question i of tier t; the category set (shift 4) starts with
\* the empty field
FieldOf(shift, t, i) ==
  FieldPaths[((shift + 2 * (t - 1) + (i - 1)) % Len(FieldPaths)) + 1]

\* question texts are numbered within a tier; in tier2 the second question
\* repeats the text of the first
TextOf(t, i) == IF t = 2 /\ i = 2 THEN 1 ELSE i

NewQuestion(shift, t, i) ==
  [question |-> TextOf(t, i), field |-> FieldOf(shift, t, i), qest |-> "pending"]

NewTier(shift, t, status, n) ==
  [status |-> status, questions |-> [i \in 1..n |-> NewQuestion(shift, t, i)]]

EmptyDoc == << >>

Node(p, k, v) == [path |-> p, kind |-> k, val |-> v]

\* {"a": {"description": "desc", "value": ""}, "c": "text"}
InitProfile ==
  { Node(<<"a">>, "dict", ""),
    Node(<<"a", "description">>, "scalar", "desc"),
    Node(<<"a", "value">>, "scalar", ""),
    Node(<<"c">>, "scalar", "text") }

\* ------------------------------------------------------------ the engine
\* sorted(..., key=lambda x: int(x.replace('tier', '')))
RECURSIVE sorted(_)
sorted(S) ==
  IF S = {} THEN << >>
  ELSE LET m == CHOOSE x \in S : \A y \in S : x <= y
       IN  <<m>> \o sorted(S \ {m})

get_status(dataset, tier_key) ==
  IF tier_key \in DOMAIN dataset THEN dataset[tier_key].status ELSE ""

set_status(dataset, tier_key, s) ==
  [dataset EXCEPT ![tier_key].status = s]

\* the scan without the write of in_process to the tier it resumes at
RECURSIVE scan_tiers_no_mark(_, _)
scan_tiers_no_mark(self, idx) ==
  IF idx > Len(self.tier_keys)
  THEN [self EXCEPT !.current_tier_idx = Len(self.tier_keys)]
  ELSE IF get_status(self.general_questions, self.tier_keys[idx]) = "completed"
       THEN scan_tiers_no_mark(self, idx + 1)
       ELSE [self EXCEPT !.current_tier_idx = idx - 1]

RECURSIVE scan_tiers(_, _)
scan_tiers(self, idx) ==
  IF idx > Len(self.tier_keys)
  THEN [self EXCEPT !.current_tier_idx = Len(self.tier_keys)]
  ELSE LET tier_key == self.tier_keys[idx]
           status == get_status(self.general_questions, tier_key)
       IN  IF status = "completed"
           THEN scan_tiers(self, idx + 1)
           ELSE [self EXCEPT
                   !.current_tier_idx = idx - 1,
                   !.general_questions =
                      IF status # "in_process"
                      THEN set_status(@, tier_key, "in_process") ELSE @]

pick_up_where_left_off(self) == scan_tiers(self, 1)

NewAgent ==
  [current_tier_idx |-> 0, current_phase |-> "general", current_q_idx |-> 0,
   tier_keys |-> << >>, general_questions |-> EmptyDoc,
   category_questions |-> EmptyDoc, profile_structure |-> {}]

\* failAt = 0: every read succeeds; failAt = k: the k-th read raises
load_data(st, failAt) ==
  IF failAt # 0
  THEN pick_up_where_left_off(NewAgent)
  ELSE pick_up_where_left_off(
         [NewAgent EXCEPT
            !.general_questions = st.general,
            !.category_questions = st.category,
            !.profile_structure = st.profile,
            !.tier_keys = sorted(DOMAIN st.general)])

get_current_tier_key(self) ==
  IF self.current_tier_idx < Len(self.tier_keys)
  THEN self.tier_keys[self.current_tier_idx + 1]
  ELSE NoTier

\* completion reported as soon as the last tier is the current one
is_complete_at_last_tier(self) == self.current_tier_idx + 1 >= Len(self.tier_keys)

is_complete(self) == self.current_tier_idx >= Len(self.tier_keys)

\* the pending questions listed from the last of the sequence to the first
RECURSIVE pending_from_newest_first(_, _)
pending_from_newest_first(questions, i) ==
  IF i > Len(questions) THEN << >>
  ELSE pending_from_newest_first(questions, i + 1)
       \o (IF questions[i].qest = "pending" THEN <<i>> ELSE << >>)

RECURSIVE pending_from(_, _)
pending_from(questions, i) ==
  IF i > Len(questions) THEN << >>
  ELSE (IF questions[i].qest = "pending" THEN <<i>> ELSE << >>)
       \o pending_from(questions, i + 1)

\* the pending questions, each named by its place in the tier's sequence
get_pending_questions(self, dataset, tier_key) ==
  IF dataset = EmptyDoc \/ tier_key = NoTier \/ tier_key \notin DOMAIN dataset
  THEN << >>
  ELSE LET tier == dataset[tier_key]
       IN  IF dataset = self.general_questions
              /\ tier.status # "in_process" /\ tier.status # ""
           THEN << >>
           ELSE pending_from(tier.questions, 1)

dataset_of(self, phase) ==
  IF phase = "general" THEN self.general_questions ELSE self.category_questions

phase_dataset(self) == dataset_of(self, self.current_phase)

\* << >> is None
get_current_question(self) ==
  LET tier_key == get_current_tier_key(self)
      pending == get_pending_questions(self, phase_dataset(self), tier_key)
  IN  IF tier_key = NoTier THEN << >>
      ELSE IF pending # << >> /\ self.current_q_idx < Len(pending)
      THEN LET q == phase_dataset(self)[tier_key].questions[pending[self.current_q_idx + 1]]
           IN  << [question |-> q.question, field |-> q.field,
                   phase |-> self.current_phase, tier |-> tier_key] >>
      ELSE << >>

\* ------------------------------------------------------ the profile tree
HasNode(tree, p) == \E n \in tree : n.path = p

\* the root is the mapping self.profile_structure itself
IsDict(tree, p) == p = << >> \/ \E n \in tree : n.path = p /\ n.kind = "dict"

IsPrefix(p, q) == Len(p) <= Len(q) /\ SubSeq(q, 1, Len(p)) = p

\* current[key] = {}
PutDict(tree, p) == tree \cup {Node(p, "dict", "")}

\* the write of the answer that replaces the whole node by {'value': answer}
PutValue_replacing_node(tree, p, answer) ==
  {n \in tree : ~IsPrefix(p, n.path)}
    \cup {Node(p, "dict", ""), Node(Append(p, "value"), "scalar", answer)}

\* current[final_key]['value'] = answer
PutValue(tree, p, answer) ==
  LET vp == Append(p, "value")
  IN  {n \in tree : ~IsPrefix(vp, n.path)} \cup {Node(vp, "scalar", answer)}

\* the walk of keys[from..], current being the node at path cur; reaching a
\* node that is no mapping raises TypeError, which the except clause swallows
RECURSIVE walk_profile(_, _, _, _, _)
walk_profile(tree, keys, from, cur, answer) ==
  IF ~IsDict(tree, cur) THEN tree
  ELSE LET nxt == Append(cur, keys[from])
       IN  IF from < Len(keys)
           THEN walk_profile(IF HasNode(tree, nxt) THEN tree ELSE PutDict(tree, nxt),
                             keys, from + 1, nxt, answer)
           ELSE IF HasNode(tree, nxt) /\ IsDict(tree, nxt)
                THEN PutValue(tree, nxt, answer)
                ELSE IF ~HasNode(tree, nxt)
                     THEN PutValue(PutDict(tree, nxt), nxt, answer)
                     ELSE tree

update_profile_structure(self, field_path, answer) ==
  IF field_path = << >> THEN self
  ELSE [self EXCEPT
          !.profile_structure = walk_profile(@, field_path, 1, << >>, answer)]

\* ------------------------------------------------------------ advancing
\* tier completion that forgets the general set
complete_current_tier_category_only(self) ==
  LET tier_key == get_current_tier_key(self)
  IN  IF tier_key = NoTier THEN self
      ELSE [self EXCEPT
              !.category_questions =
                 IF tier_key \in DOMAIN @
                 THEN set_status(@, tier_key, "completed") ELSE @]

\* tier completion that writes the status by key into the category set,
\* creating the tier there when it is absent
complete_current_tier_creating(self) ==
  LET tier_key == get_current_tier_key(self)
  IN  IF tier_key = NoTier THEN self
      ELSE [self EXCEPT
              !.general_questions =
                 IF tier_key \in DOMAIN @
                 THEN set_status(@, tier_key, "completed") ELSE @,
              !.category_questions =
                 [t \in DOMAIN @ \cup {tier_key} |->
                    IF t = tier_key
                    THEN [status |-> "completed",
                          questions |-> IF t \in DOMAIN @
                                        THEN @[t].questions ELSE << >>]
                    ELSE @[t]]]

complete_current_tier(self) ==
  LET tier_key == get_current_tier_key(self)
  IN  IF tier_key = NoTier THEN self
      ELSE [self EXCEPT
              !.general_questions =
                 IF tier_key \in DOMAIN @
                 THEN set_status(@, tier_key, "completed") ELSE @,
              !.category_questions =
                 IF tier_key \in DOMAIN @
                 THEN set_status(@, tier_key, "completed") ELSE @]

\* next-tier advancement that forgets to reset the phase
advance_to_next_tier_keep_phase(self) ==
  IF self.current_tier_idx + 1 < Len(self.tier_keys)
  THEN LET moved == [self EXCEPT !.current_tier_idx = @ + 1,
                                 !.current_q_idx = 0]
           next_tier_key == get_current_tier_key(moved)
       IN  IF next_tier_key # NoTier /\ next_tier_key \in DOMAIN moved.general_questions
           THEN [moved EXCEPT !.general_questions =
                                 set_status(@, next_tier_key, "in_process")]
           ELSE moved
  ELSE [self EXCEPT !.current_tier_idx = Len(self.tier_keys)]

\* the move to the next tier that opens the tier in the category set too
advance_to_next_tier_opening_both(self) ==
  IF self.current_tier_idx + 1 < Len(self.tier_keys)
  THEN LET moved == [self EXCEPT !.current_tier_idx = @ + 1,
                                 !.current_phase = "general",
                                 !.current_q_idx = 0]
           next_tier_key == get_current_tier_key(moved)
       IN  IF next_tier_key # NoTier /\ next_tier_key \in DOMAIN moved.general_questions
           THEN [moved EXCEPT
                   !.general_questions = set_status(@, next_tier_key, "in_process"),
                   !.category_questions =
                      IF next_tier_key \in DOMAIN @
                      THEN set_status(@, next_tier_key, "in_process") ELSE @]
           ELSE moved
  ELSE [self EXCEPT !.current_tier_idx = Len(self.tier_keys)]

advance_to_next_tier(self) ==
  IF self.current_tier_idx + 1 < Len(self.tier_keys)
  THEN LET moved == [self EXCEPT !.current_tier_idx = @ + 1,
                                 !.current_phase = "general",
                                 !.current_q_idx = 0]
           next_tier_key == get_current_tier_key(moved)
       IN  IF next_tier_key # NoTier /\ next_tier_key \in DOMAIN moved.general_questions
           THEN [moved EXCEPT !.general_questions =
                                 set_status(@, next_tier_key, "in_process")]
           ELSE moved
  ELSE [self EXCEPT !.current_tier_idx = Len(self.tier_keys)]

\* advancing that enters the category phase without looking at its questions
advance_to_next_no_skip(self) ==
  LET tier_key == get_current_tier_key(self)
  IN  IF tier_key = NoTier THEN self
      ELSE IF self.current_phase = "general"
      THEN LET pending == get_pending_questions(self, self.general_questions, tier_key)
           IN  IF pending # << >> /\ self.current_q_idx + 1 < Len(pending)
               THEN [self EXCEPT !.current_q_idx = @ + 1]
               ELSE [self EXCEPT !.current_phase = "category", !.current_q_idx = 0]
      ELSE LET pending == get_pending_questions(self, self.category_questions, tier_key)
           IN  IF pending # << >> /\ self.current_q_idx + 1 < Len(pending)
               THEN [self EXCEPT !.current_q_idx = @ + 1]
               ELSE advance_to_next_tier(complete_current_tier(self))

advance_to_next(self) ==
  LET tier_key == get_current_tier_key(self)
  IN  IF tier_key = NoTier THEN self
      ELSE IF self.current_phase = "general"
      THEN LET pending == get_pending_questions(self, self.general_questions, tier_key)
           IN  IF pending # << >> /\ self.current_q_idx + 1 < Len(pending)
               THEN [self EXCEPT !.current_q_idx = @ + 1]
               ELSE LET inCat == [self EXCEPT !.current_phase = "category",
                                              !.current_q_idx = 0]
                        cat_pending ==
                          get_pending_questions(inCat, inCat.category_questions, tier_key)
                    IN  IF cat_pending = << >>
                        THEN advance_to_next_tier(complete_current_tier(inCat))
                        ELSE inCat
      ELSE LET pending == get_pending_questions(self, self.category_questions, tier_key)
           IN  IF pending # << >> /\ self.current_q_idx + 1 < Len(pending)
               THEN [self EXCEPT !.current_q_idx = @ + 1]
               ELSE advance_to_next_tier(complete_current_tier(self))

\* ------------------------------------------------------ recording an answer
\* for q in tier_questions: if q.get('question') == question_text: ...; break
RECURSIVE first_with_text(_, _, _)
first_with_text(questions, text, i) ==
  IF i > Len(questions) THEN 0
  ELSE IF questions[i].question = text THEN i
  ELSE first_with_text(questions, text, i + 1)

\* the marking of every question of the tier that has the text
mark_answered_every_match(dataset, tier_key, question_text) ==
  [dataset EXCEPT ![tier_key].questions =
     [i \in DOMAIN @ |-> IF @[i].question = question_text
                         THEN [@[i] EXCEPT !.qest = "answered"] ELSE @[i]]]

mark_answered(dataset, tier_key, question_text) ==
  LET hit == first_with_text(dataset[tier_key].questions, question_text, 1)
  IN  IF hit = 0 THEN dataset
      ELSE [dataset EXCEPT ![tier_key].questions[hit].qest = "answered"]

\* a submit that writes the answer into the profile tree and neither marks
\* the question nor advances
submit_answer_writing_only(self, answer) ==
  LET current_q == get_current_question(self)
  IN  IF get_current_tier_key(self) = NoTier \/ current_q = << >>
      THEN [ok |-> FALSE, self |-> self]
      ELSE [ok |-> TRUE,
            self |-> update_profile_structure(self, current_q[1].field, answer)]

\* [ok, self]: the return value and the engine after the call
submit_answer(self, answer) ==
  LET tier_key == get_current_tier_key(self)
      current_q == get_current_question(self)
      dataset == phase_dataset(self)
      pending == get_pending_questions(self, dataset, tier_key)
  IN  IF tier_key = NoTier \/ current_q = << >>
      THEN [ok |-> FALSE, self |-> self]
      ELSE IF pending # << >> /\ self.current_q_idx < Len(pending)
      THEN LET question_text ==
                 dataset[tier_key].questions[pending[self.current_q_idx + 1]].question
               marked ==
                 IF self.current_phase = "general"
                 THEN [self EXCEPT !.general_questions =
                                      mark_answered(@, tier_key, question_text)]
                 ELSE [self EXCEPT !.category_questions =
                                      mark_answered(@, tier_key, question_text)]
               written == update_profile_structure(marked, current_q[1].field, answer)
           IN  [ok |-> TRUE, self |-> advance_to_next(written)]
      ELSE [ok |-> FALSE, self |-> self]

\* writes that keep a stored answered flag the engine does not have
save_writes_keep_answered(st, self, done) ==
  LET kept(old, new) ==
        [t \in DOMAIN new |->
           [new[t] EXCEPT !.questions =
              [i \in DOMAIN @ |->
                 IF t \in DOMAIN old /\ i \in DOMAIN old[t].questions
                    /\ old[t].questions[i].qest = "answered"
                 THEN [@[i] EXCEPT !.qest = "answered"] ELSE @[i]]]]
  IN  [profile  |-> IF done >= 1 THEN self.profile_structure ELSE st.profile,
       general  |-> IF done >= 2 THEN kept(st.general, self.general_questions)
                    ELSE st.general,
       category |-> IF done >= 3 THEN kept(st.category, self.category_questions)
                    ELSE st.category]

\* writes that merge the profile tree into the stored one
save_writes_merge_profile(st, self, done) ==
  [profile  |-> IF done >= 1 THEN st.profile \cup self.profile_structure
                ELSE st.profile,
   general  |-> IF done >= 2 THEN self.general_questions ELSE st.general,
   category |-> IF done >= 3 THEN self.category_questions ELSE st.category]

\* writes in the order general set, profile tree, category set
save_writes_general_first(st, self, done) ==
  [profile  |-> IF done >= 2 THEN self.profile_structure ELSE st.profile,
   general  |-> IF done >= 1 THEN self.general_questions ELSE st.general,
   category |-> IF done >= 3 THEN self.category_questions ELSE st.category]

\* the documents after the first `done` writes of save_to_firestore
save_writes(st, self, done) ==
  [profile  |-> IF done >= 1 THEN self.profile_structure ELSE st.profile,
   general  |-> IF done >= 2 THEN self.general_questions ELSE st.general,
   category |-> IF done >= 3 THEN self.category_questions ELSE st.category]

\* --------------------------------------------------------------- the system
GeneralDocs ==
  UNION { { [t \in D |-> NewTier(0, t, st[t], n)] : st \in [D -> Statuses] }
          : <<D, n>> \in (SUBSET Ranks) \X (0..MaxGenQ) }

CategoryDocs ==
  { [t \in D |-> NewTier(4, t, "in_process", m)]
    : <<D, m>> \in (SUBSET Ranks) \X (0..MaxCatQ) }

\* st.session_state before the interview page has run
NoSession == [tiered_interview_agent |-> << >>, interview_messages |-> << >>]

Op(name, ok, again, answer) ==
  [name |-> name, ok |-> ok, again |-> again, answer |-> answer]

Init ==
  /\ \E g \in GeneralDocs, c \in CategoryDocs :
       store = [general |-> g, category |-> c, profile |-> InitProfile]
  /\ agent = load_data(store, 0)
  /\ op = Op("init", TRUE, FALSE, "")
  /\ agentB = NewAgent
  /\ session = NoSession
  /\ page = << >>
  /\ raw = EmptyDoc

\* a construction that saves what it loaded and resumed
ConstructSaving(failAt) ==
  /\ agent' = load_data(store, failAt)
  /\ op' = Op("construct", failAt = 0, op.name \in {"init", "construct"} /\ op.ok, "")
  /\ store' = save_writes(store, agent', 3)
  /\ UNCHANGED <<agentB, session, page, raw>>

\* TieredInterviewAgent(db, openai_key)
Construct(failAt) ==
  /\ agent' = load_data(store, failAt)
  /\ op' = Op("construct", failAt = 0, op.name \in {"init", "construct"} /\ op.ok, "")
  /\ UNCHANGED <<store, agentB, session, page, raw>>

SubmitAnswer(answer) ==
  LET r == submit_answer(agent, answer)
  IN  /\ agent' = r.self
      /\ op' = Op("submit", r.ok, FALSE, answer)
      /\ UNCHANGED <<store, agentB, session, page, raw>>

\* a save that, when a write fails, reloads the engine from the store
SaveToFirestoreReloading(done) ==
  /\ op.name = "submit" /\ op.ok
  /\ store' = save_writes(store, agent, done)
  /\ op' = Op("save", done = 3, FALSE, "")
  /\ agent' = IF done = 3 THEN agent ELSE load_data(store', 0)
  /\ UNCHANGED <<agentB, session, page, raw>>

\* done = 3: every write succeeds; done < 3: write done+1 raises
SaveToFirestore(done) ==
  /\ op.name = "submit" /\ op.ok
  /\ store' = save_writes(store, agent, done)
  /\ op' = Op("save", done = 3, FALSE, "")
  /\ UNCHANGED <<agent, agentB, session, page, raw>>

Next ==
  \/ \E failAt \in 0..3 : Construct(failAt)
  \/ \E answer \in Answers : SubmitAnswer(answer)
  \/ \E done \in 0..3 : SaveToFirestore(done)

Spec == Init /\ [][Next]_vars

\* ------------------------------------------------------- the interview page
\* one entry of st.session_state.interview_messages; the content of an
\* assistant message is named by kind, with the tier number, the phase and
\* the question it shows
Message(role, kind, tier, phase, question, said) ==
  [role |-> role, kind |-> kind, tier |-> tier, phase |-> phase,
   question |-> question, said |-> said]

UserMessage(user_input) == Message("user", "answer", 0, "", 0, user_input)

Notice(kind) == Message("assistant", kind, 0, "", 0, "")

\* f"**Tier {agent.current_tier_idx + 1} - {phase} Phase**\n\n{text}"; kind
\* "question" carries the question text itself, "motivated" the rephrasing
QuestionMessage(kind, self, current_q) ==
  Message("assistant", kind, self.current_tier_idx + 1, current_q.phase,
          current_q.question, "")

\* the page's first run: if "tiered_interview_agent" not in st.session_state
interview_page_init(st, failAt) ==
  LET self == load_data(st, failAt)
      current_q == get_current_question(self)
  IN  IF ~is_complete(self)
      THEN [tiered_interview_agent |-> <<self>>,
            interview_messages |->
               IF current_q # << >>
               THEN <<Notice("welcome"), QuestionMessage("question", self, current_q[1])>>
               ELSE <<Notice("complete_no_questions")>>]
      ELSE [tiered_interview_agent |-> << >>,
            interview_messages |-> <<Notice("already_complete")>>]

\* what one reply did: the input, whether submit_answer succeeded, how the
\* save and the rephrasing went ("none": not called), and the engine object
Reply(user_input, submitted, saved, rephrased, self) ==
  [name |-> "reply", answer |-> user_input, submitted |-> submitted,
   saved |-> saved, rephrased |-> rephrased, self |-> self]

\* the callback: [store, session, op] after it; done and llm_ok are the
\* outcomes of the store writes and of the rephraser call if they are made
handle_tiered_reply(st, sess, user_input, done, llm_ok) ==
  IF sess.tiered_interview_agent = << >> \/ user_input = ""
  THEN [store |-> st, session |-> sess,
        op |-> Reply(user_input, FALSE, "none", "none", sess.tiered_interview_agent)]
  ELSE
    LET r == submit_answer(sess.tiered_interview_agent[1], user_input)
        self == r.self
        heard == Append(sess.interview_messages, UserMessage(user_input))
        current_q == get_current_question(self)
        Out(written, holder, messages, saved, rephrased) ==
          [store |-> written,
           session |-> [tiered_interview_agent |-> holder,
                        interview_messages |-> messages],
           op |-> Reply(user_input, r.ok, saved, rephrased, <<self>>)]
    IN  IF ~r.ok
        THEN Out(st, <<self>>, Append(heard, Notice("submit_failed")), "none", "none")
        ELSE IF done # 3
        THEN Out(save_writes(st, self, done), <<self>>,
                 Append(heard, Notice("save_failed")), "failed", "none")
        ELSE IF is_complete(self)
        THEN Out(save_writes(st, self, 3), << >>,
                 Append(heard, Notice("congratulations")), "ok", "none")
        ELSE IF current_q = << >>
        THEN Out(save_writes(st, self, 3), <<self>>,
                 Append(heard, Notice("no_more_questions")), "ok", "none")
        ELSE IF llm_ok
        THEN Out(save_writes(st, self, 3), <<self>>,
                 Append(heard, QuestionMessage("motivated", self, current_q[1])),
                 "ok", "ok")
        \* regenerate_question_with_motivation raises out of the callback
        ELSE Out(save_writes(st, self, 3), <<self>>, heard, "ok", "failed")

\* general sets as the generator wraps them: every tier in_process, a
\* number of questions of its own for each tier
PageGeneralDocs ==
  { [t \in Ranks |-> NewTier(0, t, "in_process", n[t])]
    : n \in [Ranks -> 0..MaxGenQ] }

InitPage ==
  /\ \E g \in PageGeneralDocs, c \in CategoryDocs :
       store = [general |-> g, category |-> c, profile |-> InitProfile]
  /\ session = interview_page_init(store, 0)
  /\ op = [name |-> "init"]
  /\ agent = NewAgent
  /\ agentB = NewAgent
  /\ page = << >>
  /\ raw = EmptyDoc

\* on_submit=handle_tiered_reply
HandleTieredReply(user_input, done, llm_ok) ==
  LET out == handle_tiered_reply(store, session, user_input, done, llm_ok)
  IN  /\ Len(session.interview_messages) + 2 <= MaxMessages
      /\ store' = out.store
      /\ session' = out.session
      /\ op' = out.op
      /\ UNCHANGED <<agent, agentB, page, raw>>

NextPage ==
  \E user_input \in Answers \cup {""}, done \in 0..3, llm_ok \in BOOLEAN :
        HandleTieredReply(user_input, done, llm_ok)

SpecPage == InitPage /\ [][NextPage]_vars

\* ------------------------------------------------- two engines, one store
Instance(who) == IF who = "A" THEN agent ELSE agentB

\* unsaved: the instances that recorded an answer and have not saved since;
\* saved: those whose last successful save wrote the state they hold
OpTwo(name, who, ok, unsaved, saved) ==
  [name |-> name, who |-> who, ok |-> ok, unsaved |-> unsaved, saved |-> saved]

\* both instances are built before either saves; the documents are those
\* of a generator run that gave every tier the same number of questions
InitTwo ==
  /\ \E n \in 1..MaxGenQ, c \in CategoryDocs :
       /\ DOMAIN c = Ranks
       /\ store = [general |-> [t \in Ranks |-> NewTier(0, t, "in_process", n)],
                   category |-> c, profile |-> InitProfile]
  /\ agent = load_data(store, 0)
  /\ agentB = load_data(store, 0)
  /\ op = OpTwo("init", "", TRUE, {}, {})
  /\ session = NoSession
  /\ page = << >>
  /\ raw = EmptyDoc

Record(who, answer) ==
  LET r == submit_answer(Instance(who), answer)
  IN  /\ IF who = "A"
         THEN agent' = r.self /\ UNCHANGED agentB
         ELSE agentB' = r.self /\ UNCHANGED agent
      /\ op' = OpTwo("submit", who, r.ok,
                     IF r.ok THEN op.unsaved \cup {who} ELSE op.unsaved,
                     IF r.ok THEN op.saved \ {who} ELSE op.saved)
      /\ UNCHANGED <<store, session, page, raw>>

\* the save that follows a successful submit_answer of the instance
Save(who, done) ==
  /\ who \in op.unsaved
  /\ store' = save_writes(store, Instance(who), done)
  /\ op' = OpTwo("save", who, done = 3, op.unsaved \ {who},
                 IF done = 3 THEN op.saved \cup {who} ELSE op.saved)
  /\ UNCHANGED <<agent, agentB, session, page, raw>>

NextTwo ==
  \/ \E who \in {"A", "B"}, answer \in Answers : Record(who, answer)
  \/ \E who \in {"A", "B"}, done \in 0..3 : Save(who, done)

SpecTwo == InitTwo /\ [][NextTwo]_vars

\* ------------------------------------------------- the recommendation page
\* an element of a parsed list: a mapping, whose title and reason are ""
\* when the key is absent, or anything else
RecItems ==
  [kind : {"dict"}, title : {"", "t"}, reason : {"", "r"}]
    \cup {[kind |-> "other", title |-> "", reason |-> ""]}

RecLists == UNION { [1..n -> RecItems] : n \in 0..MaxRecs }

\* json.loads(recs_json): kind "invalid" when generating or parsing raises;
\* a "dict" has title and reason like an item and, under the key
\* recommendations, a list (wraps "list", the list in items), another value
\* (wraps "other") or nothing (wraps "none")
Parsed(kind, wraps, items, title, reason) ==
  [kind |-> kind, wraps |-> wraps, items |-> items, title |-> title,
   reason |-> reason]

ParsedResponses ==
  {Parsed("invalid", "none", << >>, "", ""), Parsed("scalar", "none", << >>, "", "")}
    \cup {Parsed("list", "none", l, "", "") : l \in RecLists}
    \cup {Parsed("dict", "list", l, "", "") : l \in RecLists}
    \cup {Parsed("dict", w, << >>, i.title, i.reason)
            : <<w, i>> \in {"other", "none"} \X {x \in RecItems : x.kind = "dict"}}

\* what the page shows: st.markdown and st.write of item n, or st.error
Shown(kind, n, title, reason) ==
  [kind |-> kind, n |-> n, title |-> title, reason |-> reason]

ShownError(text) == Shown("error", 0, "", text)

\* for i, item in enumerate(recs, 1): item.get raises on an item that is
\* no mapping, and the except clause of the handler reports it
RECURSIVE render_items(_, _)
render_items(items, i) ==
  IF i > Len(items) THEN << >>
  ELSE IF items[i].kind # "dict" THEN <<ShownError("failed")>>
  ELSE <<Shown("item", i,
               IF items[i].title = "" THEN "<no title>" ELSE items[i].title,
               IF items[i].reason = "" THEN "<no reason>" ELSE items[i].reason)>>
       \o render_items(items, i + 1)

\* the handler of the Generate Recommendations button
generate_recommendations_clicked(recs) ==
  IF recs.kind = "invalid" THEN <<ShownError("failed")>>
  ELSE LET normal ==
             IF recs.kind = "dict"
             THEN IF recs.wraps = "list"
                  THEN Parsed("list", "none", recs.items, "", "")
                  ELSE Parsed("list", "none",
                              <<[kind |-> "dict", title |-> recs.title,
                                 reason |-> recs.reason]>>, "", "")
             ELSE recs
       IN  IF normal.kind # "list"
           THEN <<ShownError("unexpected_format")>>
           ELSE render_items(normal.items, 1)

InitRecs ==
  /\ page = << >>
  /\ op = [name |-> "init", recs |-> Parsed("invalid", "none", << >>, "", "")]
  /\ store = [general |-> EmptyDoc, category |-> EmptyDoc, profile |-> InitProfile]
  /\ agent = NewAgent
  /\ agentB = NewAgent
  /\ session = NoSession
  /\ raw = EmptyDoc

GenerateRecommendations(recs) ==
  /\ page' = generate_recommendations_clicked(recs)
  /\ op' = [name |-> "recommend", recs |-> recs]
  /\ UNCHANGED <<store, agent, agentB, session, raw>>

NextRecs == \E recs \in ParsedResponses : GenerateRecommendations(recs)

SpecRecs == InitRecs /\ [][NextRecs]_vars

\* ------------------------------------- documents of any shape in the store
\* A stored value is tagged with its kind: "dict" for a mapping, "other"
\* for anything else.  A tier without the key questions reads as a tier
\* with no question (tier.get('questions', [])).
OtherEntry == [question |-> 0, field |-> << >>, qest |-> "", kind |-> "other"]

OtherTier == [status |-> "", questions |-> << >>, kind |-> "other"]

\* the shape of a tier: no mapping, or a mapping with a status and n
\* entries of which those at the places in others are no mappings
RawShapes ==
  {[kind |-> "other", status |-> "", n |-> 0, others |-> {}]}
    \cup UNION { [kind : {"dict"}, status : Statuses, n : {n},
                  others : SUBSET (1..n)]
                 : n \in 0..MaxGenQ }

RawTier(t, shape) ==
  IF shape.kind = "other" THEN OtherTier
  ELSE [status |-> shape.status,
        questions |->
          [i \in 1..shape.n |->
             IF i \in shape.others THEN OtherEntry
             ELSE [question |-> TextOf(t, i), field |-> FieldOf(0, t, i),
                   qest |-> "pending", kind |-> "dict"]],
        kind |-> "dict"]

\* pick_up_where_left_off raises: .get('status', '') on a tier that is no
\* mapping, reached after completed tiers only
RECURSIVE scan_raises(_, _)
scan_raises(self, idx) ==
  IF idx > Len(self.tier_keys) THEN FALSE
  ELSE LET tier == self.general_questions[self.tier_keys[idx]]
       IN  IF tier.kind # "dict" THEN TRUE
           ELSE IF tier.status = "completed" THEN scan_raises(self, idx + 1)
           ELSE FALSE

\* get_pending_questions raises: tier.get on a tier that is no mapping
pending_raises(dataset, tier_key) ==
  /\ dataset # EmptyDoc /\ tier_key # NoTier /\ tier_key \in DOMAIN dataset
  /\ dataset[tier_key].kind # "dict"

\* the marking loop raises: q.get on an entry that is no mapping, met
\* before the question it looks for
RECURSIVE marking_raises(_, _, _)
marking_raises(questions, text, i) ==
  IF i > Len(questions) THEN FALSE
  ELSE IF questions[i].kind # "dict" THEN TRUE
  ELSE IF questions[i].question = text THEN FALSE
  ELSE marking_raises(questions, text, i + 1)

\* the engine read from the general document alone: the category document
\* is absent
loaded_raw(general) ==
  [NewAgent EXCEPT !.general_questions = general,
                   !.profile_structure = InitProfile,
                   !.tier_keys = sorted(DOMAIN general)]

Outcome(raised, ok, self) == [raised |-> raised, ok |-> ok, self |-> self]

\* submit_answer on documents of any shape
submit_answer_raw(self, answer) ==
  LET tier_key == get_current_tier_key(self)
      dataset == phase_dataset(self)
  IN  IF tier_key = NoTier THEN Outcome(FALSE, FALSE, self)
      ELSE IF pending_raises(dataset, tier_key) THEN Outcome(TRUE, FALSE, self)
      ELSE IF get_current_question(self) = << >> THEN Outcome(FALSE, FALSE, self)
      ELSE
        LET pending == get_pending_questions(self, dataset, tier_key)
            question_text ==
              dataset[tier_key].questions[pending[self.current_q_idx + 1]].question
            recorded == submit_answer(self, answer).self
            next_idx == recorded.current_tier_idx
        IN  IF marking_raises(dataset[tier_key].questions, question_text, 1)
            THEN Outcome(TRUE, FALSE, self)
            \* advance_to_next_tier: ['status'] = 'in_process' on a next
            \* tier that is no mapping raises after the position moved
            ELSE IF /\ next_idx # self.current_tier_idx
                    /\ next_idx < Len(self.tier_keys)
                    /\ self.general_questions[self.tier_keys[next_idx + 1]].kind # "dict"
            THEN Outcome(TRUE, FALSE,
                         [recorded EXCEPT
                            !.general_questions[self.tier_keys[next_idx + 1]] =
                               OtherTier])
            ELSE Outcome(FALSE, TRUE, recorded)

OpRaw(name, raised, ok, built) ==
  [name |-> name, raised |-> raised, ok |-> ok, built |-> built]

InitRaw ==
  /\ \E D \in SUBSET Ranks :
       \E shape \in [D -> RawShapes] :
          raw = [t \in D |-> RawTier(t, shape[t])]
  /\ agent = NewAgent
  /\ op = OpRaw("init", FALSE, TRUE, FALSE)
  /\ store = [general |-> EmptyDoc, category |-> EmptyDoc, profile |-> InitProfile]
  /\ agentB = NewAgent
  /\ session = NoSession
  /\ page = << >>

\* TieredInterviewAgent(db, openai_key): when the resume raises the caller
\* gets no instance
ConstructRaw ==
  LET self == loaded_raw(raw)
  IN  /\ IF scan_raises(self, 1)
         THEN /\ agent' = NewAgent
              /\ op' = OpRaw("construct", TRUE, FALSE, FALSE)
         ELSE /\ agent' = pick_up_where_left_off(self)
              /\ op' = OpRaw("construct", FALSE, TRUE, TRUE)
      /\ UNCHANGED <<raw, store, agentB, session, page>>

GetCurrentQuestionRaw ==
  /\ op.built
  /\ op' = OpRaw("get_current_question",
                 pending_raises(phase_dataset(agent), get_current_tier_key(agent)),
                 TRUE, TRUE)
  /\ UNCHANGED <<raw, agent, store, agentB, session, page>>

SubmitAnswerRaw(answer) ==
  LET r == submit_answer_raw(agent, answer)
  IN  /\ op.built
      /\ agent' = r.self
      /\ op' = OpRaw("submit", r.raised, r.ok, TRUE)
      /\ UNCHANGED <<raw, store, agentB, session, page>>

\* the save after a successful submit; written: the general document was
\* written before a write failed, or every write succeeded
SaveRaw(written) ==
  /\ op.built /\ op.name = "submit" /\ op.ok
  /\ raw' = IF written THEN agent.general_questions ELSE raw
  /\ op' = OpRaw("save", FALSE, written, TRUE)
  /\ UNCHANGED <<agent, store, agentB, session, page>>

NextRaw ==
  \/ ConstructRaw
  \/ GetCurrentQuestionRaw
  \/ \E answer \in Answers : SubmitAnswerRaw(answer)
  \/ \E written \in BOOLEAN : SaveRaw(written)

SpecRaw == InitRaw /\ [][NextRaw]_vars

\* ------------------------------------- get_pending_questions on any content
\* a tier whose first k questions have been answered
AnsweredUpTo(tier, k) ==
  [tier EXCEPT !.questions =
     [i \in DOMAIN @ |-> IF i <= k THEN [@[i] EXCEPT !.qest = "answered"]
                         ELSE @[i]]]

PendingOp(name, dataset, tier_key, result) ==
  [name |-> name, dataset |-> dataset, tier_key |-> tier_key,
   result |-> result]

\* the store holds a general document and a category document over the same
\* tiers; shift 0 makes the category questions those of the general document
InitPending ==
  /\ \E D \in SUBSET Ranks, n \in 0..MaxGenQ, m \in 0..MaxCatQ,
        shift \in {0, 4}, cs \in Statuses :
       \E gs \in [D -> Statuses], j \in 0..n, k \in 0..m :
          store = [general |-> [t \in D |-> AnsweredUpTo(NewTier(0, t, gs[t], n), j)],
                   category |-> [t \in D |-> AnsweredUpTo(NewTier(shift, t, cs, m), k)],
                   profile |-> InitProfile]
  /\ agent = load_data(store, 0)
  /\ op = PendingOp("init", "", NoTier, << >>)
  /\ agentB = NewAgent
  /\ session = NoSession
  /\ page = << >>
  /\ raw = EmptyDoc

\* agent.get_pending_questions(agent.<phase>_questions, tier_key)
GetPendingQuestions(phase, tier_key) ==
  /\ op' = PendingOp("get_pending_questions", phase, tier_key,
                     get_pending_questions(agent, dataset_of(agent, phase), tier_key))
  /\ UNCHANGED <<store, agent, agentB, session, page, raw>>

NextPending ==
  \E phase \in {"general", "category"}, tier_key \in Ranks :
     GetPendingQuestions(phase, tier_key)

SpecPending == InitPending /\ [][NextPending]_vars

\* ------------------------------------------- longer sequences of questions
\* the questions of tier t of which those at the places in A were answered
\* by an earlier instance
AnsweredAt(tier, A) ==
  [tier EXCEPT !.questions =
     [i \in DOMAIN @ |-> IF i \in A THEN [@[i] EXCEPT !.qest = "answered"]
                         ELSE @[i]]]

\* every tier is open and has up to MaxSeqQ general questions and at most
\* one category question
InitOrder ==
  /\ \E n \in 0..MaxSeqQ, m \in 0..1 :
       \E A \in SUBSET (1..n) :
          store = [general |-> [t \in Ranks |->
                                  AnsweredAt(NewTier(0, t, "in_process", n), A)],
                   category |-> [t \in Ranks |-> NewTier(4, t, "in_process", m)],
                   profile |-> InitProfile]
  /\ agent = load_data(store, 0)
  /\ op = Op("init", TRUE, FALSE, "")
  /\ agentB = NewAgent
  /\ session = NoSession
  /\ page = << >>
  /\ raw = EmptyDoc

SpecOrder == InitOrder /\ [][Next]_vars

\* ------------------------------------------------ tier keys as strings
\* A key is the sequence of its characters.
DigitChars == <<"0", "1", "2", "3", "4", "5", "6", "7", "8", "9">>

DigitOf(c) == CHOOSE d \in 0..9 : DigitChars[d + 1] = c

IsDigit(c) == \E d \in 0..9 : DigitChars[d + 1] = c

\* str(n) for n >= 0
RECURSIVE str(_)
str(n) ==
  IF n < 10 THEN <<DigitChars[n + 1]>>
  ELSE Append(str(n \div 10), DigitChars[(n % 10) + 1])

TierWord == <<"t", "i", "e", "r">>

\* 'tier<n>'
TierKey(n) == TierWord \o str(n)

\* k.startswith('tier')
startswith_tier(k) == Len(k) >= 4 /\ SubSeq(k, 1, 4) = TierWord

\* x.replace('tier', ''): every occurrence is removed, left to right
RECURSIVE replace_tier(_)
replace_tier(x) ==
  IF x = << >> THEN << >>
  ELSE IF startswith_tier(x) THEN replace_tier(SubSeq(x, 5, Len(x)))
  ELSE <<x[1]>> \o replace_tier(SubSeq(x, 2, Len(x)))

\* int(s) raises ValueError for the empty string and for a string with a
\* character that is no digit
int_raises(s) == s = << >> \/ \E i \in DOMAIN s : ~IsDigit(s[i])

RECURSIVE int(_)
int(s) ==
  IF s = << >> THEN 0
  ELSE 10 * int(SubSeq(s, 1, Len(s) - 1)) + DigitOf(s[Len(s)])

\* key=lambda x: int(x.replace('tier', ''))
rank_of(x) == int(replace_tier(x))

\* the comparison of two strings of digits as strings
RECURSIVE str_less(_, _)
str_less(a, b) ==
  IF b = << >> THEN FALSE
  ELSE IF a = << >> THEN TRUE
  ELSE IF a[1] # b[1] THEN DigitOf(a[1]) < DigitOf(b[1])
  ELSE str_less(SubSeq(a, 2, Len(a)), SubSeq(b, 2, Len(b)))

\* sorted(keys) without the key function
RECURSIVE sorted_as_strings(_)
sorted_as_strings(K) ==
  IF K = {} THEN << >>
  ELSE LET m == CHOOSE x \in K :
                  \A y \in K \ {x} : str_less(replace_tier(x), replace_tier(y))
       IN  <<m>> \o sorted_as_strings(K \ {m})

\* sorted(keys, key=lambda x: int(x.replace('tier', '')))
RECURSIVE sorted_by_rank(_)
sorted_by_rank(K) ==
  IF K = {} THEN << >>
  ELSE LET m == CHOOSE x \in K : \A y \in K : rank_of(x) <= rank_of(y)
       IN  <<m>> \o sorted_by_rank(K \ {m})

\* the tier keys load_data extracts from the keys of the general set; the
\* ValueError of a key with no integer rank is caught by load_data, which
\* then leaves no tier key
extract_tier_keys(keys) ==
  LET tiers == {k \in keys : startswith_tier(k)}
  IN  IF \E k \in tiers : int_raises(replace_tier(k)) THEN << >>
      ELSE sorted_by_rank(tiers)

\* the keys of a question set: tier1, tier2, ... (among them one of two
\* digits), and a key that names no tier
OtherKey == <<"m", "e", "t", "a">>

StoredKeys == {TierKey(1), TierKey(2), TierKey(3), TierKey(MaxKeyRank), OtherKey}

KeysOp(name, tier_keys) == [name |-> name, tier_keys |-> tier_keys]

\* raw holds the keys of the two stored question sets
InitKeys ==
  /\ \E g \in SUBSET StoredKeys, c \in SUBSET StoredKeys :
       raw = [general |-> g, category |-> c]
  /\ op = KeysOp("init", << >>)
  /\ agent = NewAgent
  /\ store = [general |-> EmptyDoc, category |-> EmptyDoc, profile |-> InitProfile]
  /\ agentB = NewAgent
  /\ session = NoSession
  /\ page = << >>

\* load_data: the extraction of tier_keys
ExtractTierKeys ==
  /\ op.name = "init"
  /\ op' = KeysOp("load_data", extract_tier_keys(raw.general))
  /\ UNCHANGED <<raw, agent, store, agentB, session, page>>

NextKeys == ExtractTierKeys

SpecKeys == InitKeys /\ [][NextKeys]_vars

\* ------------------------------------------- any status in the category set
\* every tier is in both sets; the tiers of the category set share a status
InitStatus ==
  /\ \E n \in 0..MaxGenQ, m \in 0..MaxCatQ, cs \in Statuses :
       \E gs \in [Ranks -> Statuses] :
          store = [general |-> [t \in Ranks |-> NewTier(0, t, gs[t], n)],
                   category |-> [t \in Ranks |-> NewTier(4, t, cs, m)],
                   profile |-> InitProfile]
  /\ agent = load_data(store, 0)
  /\ op = Op("init", TRUE, FALSE, "")
  /\ agentB = NewAgent
  /\ session = NoSession
  /\ page = << >>
  /\ raw = EmptyDoc

SpecStatus == InitStatus /\ [][Next]_vars

\* ------------------------------------------------- counting the successes
\* the questions flagged pending in the two question sets of the engine
PendingPlaces(self) ==
  UNION { { <<phase, t, i>> :
              i \in {j \in DOMAIN dataset_of(self, phase)[t].questions :
                       dataset_of(self, phase)[t].questions[j].qest = "pending"} }
          : <<phase, t>> \in { pt \in {"general", "category"} \X Ranks :
                                 pt[2] \in DOMAIN dataset_of(self, pt[1]) } }

\* page counts, for the instance in agent, the submit_answer calls that
\* returned True, next to the number of questions pending when it loaded
Count(successes, self) ==
  [successes |-> successes, pending_at_load |-> Cardinality(PendingPlaces(self))]

InitCount ==
  /\ \E n \in 0..MaxSeqQ, m \in 0..MaxCatQ :
       \E A \in SUBSET (1..n) :
          store = [general |-> [t \in Ranks |->
                                  AnsweredAt(NewTier(0, t, "in_process", n), A)],
                   category |-> [t \in Ranks |-> NewTier(4, t, "in_process", m)],
                   profile |-> InitProfile]
  /\ agent = load_data(store, 0)
  /\ op = Op("init", TRUE, FALSE, "")
  /\ page = Count(0, agent)
  /\ agentB = NewAgent
  /\ session = NoSession
  /\ raw = EmptyDoc

ConstructCounted(failAt) ==
  /\ agent' = load_data(store, failAt)
  /\ op' = Op("construct", failAt = 0, op.name \in {"init", "construct"} /\ op.ok, "")
  /\ page' = Count(0, agent')
  /\ UNCHANGED <<store, agentB, session, raw>>

SubmitAnswerCounted(answer) ==
  LET r == submit_answer(agent, answer)
  IN  /\ agent' = r.self
      /\ op' = Op("submit", r.ok, FALSE, answer)
      /\ page' = [page EXCEPT !.successes = IF r.ok THEN @ + 1 ELSE @]
      /\ UNCHANGED <<store, agentB, session, raw>>

NextCount ==
  \/ \E failAt \in 0..3 : ConstructCounted(failAt)
  \/ \E answer \in Answers : SubmitAnswerCounted(answer)
  \/ \E done \in 0..3 : SaveToFirestore(done)

SpecCount == InitCount /\ [][NextCount]_vars

\* ------------------------------------------------------------ search_web
\* def search_web(query, max_results=3, ...)
DefaultMaxResults == 3

\* what one call of ddgs.text does: it yields its results, or raises a
\* DuckDuckGoSearchException whose message has "202" in it, or raises one
\* whose message has not
SearchOutcomes == {"ok", "rate_limited", "error"}

\* wait = base_delay * (2 ** (attempt - 1))
backoff_linear(base_delay, attempt) == base_delay * attempt

backoff(base_delay, attempt) == base_delay * (2 ^ (attempt - 1))

\* list(islice(ddgs.text(query), max_results))
islice_len(found, max_results) == IF found < max_results THEN found ELSE max_results

\* a call of search_web: its arguments, the value of attempt, the outcome of
\* every attempt made, the waits slept, and how it ended ("results": the
\* list of `results` items was returned; "exhausted": [] was returned after
\* the loop; "raised": the exception left the function)
Search(status, max_results, max_retries, base_delay, attempt, outcomes, slept, found, results) ==
  [status |-> status, max_results |-> max_results, max_retries |-> max_retries,
   base_delay |-> base_delay, attempt |-> attempt, outcomes |-> outcomes,
   slept |-> slept, found |-> found, results |-> results]

InitSearch ==
  /\ page = Search("idle", 0, 0, 0, 0, << >>, << >>, 0, 0)
  /\ op = KeysOp("init", << >>)
  /\ agent = NewAgent
  /\ store = [general |-> EmptyDoc, category |-> EmptyDoc, profile |-> InitProfile]
  /\ agentB = NewAgent
  /\ session = NoSession
  /\ raw = EmptyDoc

\* search_web(query, max_results, max_retries, base_delay) is called
CallSearchWeb(max_results, max_retries, base_delay) ==
  /\ page.status # "running"
  /\ page' = Search("running", max_results, max_retries, base_delay, 1,
                    << >>, << >>, 0, 0)
  /\ UNCHANGED <<op, agent, store, agentB, session, raw>>

\* one pass of the loop body: the search yields found items, or raises
SearchAttempt(outcome, found) ==
  /\ page.status = "running" /\ page.attempt <= page.max_retries
  /\ page' =
       IF outcome = "ok"
       THEN [page EXCEPT !.status = "results",
                         !.outcomes = Append(@, outcome),
                         !.found = found,
                         !.results = islice_len(found, page.max_results)]
       ELSE IF outcome = "rate_limited"
       THEN [page EXCEPT !.outcomes = Append(@, outcome),
                         !.slept = Append(@, backoff(page.base_delay, page.attempt)),
                         !.attempt = @ + 1]
       ELSE [page EXCEPT !.status = "raised",
                         !.outcomes = Append(@, outcome)]
  /\ UNCHANGED <<op, agent, store, agentB, session, raw>>

\* the loop is over: return []
ReturnEmpty ==
  /\ page.status = "running" /\ page.attempt > page.max_retries
  /\ page' = [page EXCEPT !.status = "exhausted", !.results = 0]
  /\ UNCHANGED <<op, agent, store, agentB, session, raw>>

NextSearch ==
  \/ \E max_results \in {1, DefaultMaxResults}, max_retries \in 0..MaxRetries,
        base_delay \in 1..MaxDelay :
       CallSearchWeb(max_results, max_retries, base_delay)
  \/ \E outcome \in SearchOutcomes, found \in 0..MaxFound :
       SearchAttempt(outcome, found)
  \/ ReturnEmpty

SpecSearch == InitSearch /\ [][NextSearch]_vars

\* ================================================================ claims
Pos(self) == <<self.current_tier_idx, self.current_phase, self.current_q_idx>>

HasCurrent(self) == get_current_question(self) # << >>

\* the questions of tier_key flagged pending, whatever the tier's status
Flagged(dataset, tier_key) ==
  IF tier_key \in DOMAIN dataset
  THEN {i \in DOMAIN dataset[tier_key].questions :
          dataset[tier_key].questions[i].qest = "pending"}
  ELSE {}

\* the place, in its tier's sequence, of the question that is current
CurrentPlace(self) ==
  get_pending_questions(self, phase_dataset(self),
                        get_current_tier_key(self))[self.current_q_idx + 1]

\* the step is a submit_answer call that returned success
SubmitOk == op'.name = "submit" /\ op'.ok

\* C1: with k >= 2 general questions pending in tier t and no category
\* question pending for t, a successful submit in the general phase that
\* leaves a general question of t pending keeps the engine in (t, general),
\* moves the index on by one, leaves t uncompleted and presents the next
\* pending question of the sequence; t is completed only by the last call.
C1_GeneralOrder ==
  [][ LET t == get_current_tier_key(agent)
          place == CurrentPlace(agent)
          left == Flagged(agent'.general_questions, t)
      IN  (SubmitOk /\ agent.current_phase = "general"
             /\ Flagged(agent.category_questions, t) = {}
             /\ left # {})
          => /\ Pos(agent') = <<agent.current_tier_idx, "general",
                                agent.current_q_idx + 1>>
             /\ get_status(agent'.general_questions, t) # "completed"
             /\ HasCurrent(agent')
             /\ CurrentPlace(agent') = CHOOSE i \in left :
                                         \A j \in left : i <= j ]_vars

\* C2: every tier below the current tier index has general status completed.
C2_NoSkip ==
  \A j \in 1..Len(agent.tier_keys) :
     j <= agent.current_tier_idx
       => get_status(agent.general_questions, agent.tier_keys[j]) = "completed"

C2_Witness ==
  /\ op.name = "submit" /\ op.ok
  /\ agent.current_tier_idx > 0
  /\ ~is_complete(agent)

\* C3: within one engine instance a general tier status that is completed
\* stays completed through every submit_answer (with its advance, tier
\* completion and next-tier advancement) and every save.
C3_Monotonic ==
  [][ op'.name # "construct"
        => \A t \in DOMAIN agent.general_questions :
              agent.general_questions[t].status = "completed"
                => get_status(agent'.general_questions, t) = "completed" ]_vars

\* C4: after a successful submit_answer the profile node at the current
\* question's non-empty field path is a mapping whose value is the submitted
\* answer, and the question that was current is flagged answered.
C4_AnswerWritten ==
  [][ LET t == get_current_tier_key(agent)
          place == CurrentPlace(agent)
          field == get_current_question(agent)[1].field
      IN  SubmitOk
          => /\ dataset_of(agent', agent.current_phase)[t].questions[place].qest
                  = "answered"
             /\ field # << >>
                  => /\ IsDict(agent'.profile_structure, field)
                     /\ Node(Append(field, "value"), "scalar", op'.answer)
                          \in agent'.profile_structure ]_vars

\* C5: a construction writes nothing to the store, and a construction that
\* directly follows a construction from the same store derives the same
\* position and the same current question.
C5_ReloadIdempotent ==
  [][ op'.name = "construct"
        => /\ store' = store
           /\ (op'.ok /\ op'.again)
                => /\ Pos(agent') = Pos(agent)
                   /\ get_current_question(agent') = get_current_question(agent) ]_vars

C5_Witness ==
  /\ op.name = "construct" /\ op.ok /\ op.again
  /\ HasCurrent(agent)
  /\ agent.general_questions # store.general

\* the step is the successful submit that answers the last pending general
\* question of the current tier while no category question of it is pending
ExhaustsGeneral ==
  /\ SubmitOk
  /\ agent.current_phase = "general"
  /\ Flagged(agent'.general_questions, get_current_tier_key(agent)) = {}
  /\ Flagged(agent.category_questions, get_current_tier_key(agent)) = {}

CompletedInBoth(self, t) ==
  /\ get_status(self.general_questions, t) = "completed"
  /\ t \in DOMAIN self.category_questions
       => self.category_questions[t].status = "completed"

\* C6 as claimed: the submit that exhausts the general questions of a tier
\* without pending category questions completes the tier in both sets and
\* moves on with the phase never left at category, the last tier included.
C6_AsClaimed ==
  [][ ExhaustsGeneral
        => /\ CompletedInBoth(agent', get_current_tier_key(agent))
           /\ agent'.current_tier_idx = agent.current_tier_idx + 1
           /\ agent'.current_phase # "category" ]_vars

\* C6 amended: the tier is completed in both sets; when a next tier exists
\* the position becomes (t+1, general, 0); when t is the last tier the
\* interview is complete and the phase field keeps the value category.
C6_EmptyCategorySkip ==
  [][ ExhaustsGeneral
        => /\ CompletedInBoth(agent', get_current_tier_key(agent))
           /\ IF agent.current_tier_idx + 1 < Len(agent.tier_keys)
              THEN Pos(agent') = <<agent.current_tier_idx + 1, "general", 0>>
              ELSE /\ is_complete(agent')
                   /\ Pos(agent') = <<Len(agent.tier_keys), "category", 0>> ]_vars

C6_Witness ==
  /\ op.name = "submit" /\ op.ok
  /\ Pos(agent) = <<1, "general", 0>>
  /\ ~is_complete(agent)
  /\ LET t == agent.tier_keys[1]
     IN  /\ Flagged(agent.general_questions, t) = {}
         /\ Len(agent.general_questions[t].questions) > 0
         /\ t \in DOMAIN agent.category_questions
         /\ agent.category_questions[t].status = "completed"

\* C7: without a current question submit_answer fails; a failed call changes
\* nothing; a successful call has marked the current question answered,
\* written its non-empty field and moved the position.
C7_AllOrNothing ==
  [][ op'.name = "submit"
        => /\ ~HasCurrent(agent) => ~op'.ok
           /\ ~op'.ok => (agent' = agent /\ store' = store)
           /\ op'.ok
                => LET t == get_current_tier_key(agent)
                       place == CurrentPlace(agent)
                       field == get_current_question(agent)[1].field
                   IN  /\ dataset_of(agent', agent.current_phase)[t]
                             .questions[place].qest = "answered"
                       /\ field # << >>
                            => Node(Append(field, "value"), "scalar", op'.answer)
                                 \in agent'.profile_structure
                       /\ Pos(agent') # Pos(agent) ]_vars

\* the general set a construction read: the stored one, or the empty
\* fallback after a store error
Loaded == IF op.ok THEN store.general ELSE EmptyDoc

NotCompleted(g) == {t \in DOMAIN g : g[t].status # "completed"}

\* C8: after a construction the position is (i, general, 0), i counting the
\* tiers ranked below the lowest-ranked tier that is not completed; that
\* tier is in_process and nothing else of the general set differs from what
\* was loaded; with no such tier the index is the tier count and the
\* interview is complete.
C8_ResumePosition ==
  op.name \in {"init", "construct"}
    => LET g == Loaded
           open == NotCompleted(g)
       IN  /\ agent.current_phase = "general"
           /\ agent.current_q_idx = 0
           /\ Len(agent.tier_keys) = Cardinality(DOMAIN g)
           /\ IF open = {}
              THEN /\ agent.current_tier_idx = Cardinality(DOMAIN g)
                   /\ is_complete(agent)
                   /\ agent.general_questions = g
              ELSE LET t == CHOOSE x \in open : \A y \in open : x <= y
                   IN  /\ agent.current_tier_idx
                            = Cardinality({u \in DOMAIN g : u < t})
                       /\ get_current_tier_key(agent) = t
                       /\ ~is_complete(agent)
                       /\ agent.general_questions
                            = [g EXCEPT ![t].status = "in_process"]

C8_Witness ==
  /\ op.name = "construct" /\ op.ok
  /\ agent.current_tier_idx > 0
  /\ ~is_complete(agent)
  /\ store.general[get_current_tier_key(agent)].status = ""

\* C9: an engine built from the stored documents is either complete or has
\* a current question.
C9_NeverStuck ==
  (op.name = "construct" /\ op.ok)
    => (is_complete(agent) \/ HasCurrent(agent))

\* C10: a successful submit in the category phase that leaves a category
\* question of the tier pending keeps the engine in (t, category), moves the
\* index on by one, leaves t uncompleted and presents the next pending
\* question of the sequence.
C10_CategoryOrder ==
  [][ LET t == get_current_tier_key(agent)
          left == Flagged(agent'.category_questions, t)
      IN  (SubmitOk /\ agent.current_phase = "category" /\ left # {})
          => /\ Pos(agent') = <<agent.current_tier_idx, "category",
                                agent.current_q_idx + 1>>
             /\ get_status(agent'.general_questions, t) # "completed"
             /\ HasCurrent(agent')
             /\ CurrentPlace(agent') = CHOOSE i \in left :
                                         \A j \in left : i <= j ]_vars

\* the current question is a general question of tier t
CurrentIsGeneralOf(self, t) ==
  /\ HasCurrent(self)
  /\ get_current_question(self)[1].phase = "general"
  /\ get_current_question(self)[1].tier = t

\* C11: a general question of a tier whose general status is completed does
\* not become the current question: not by an operation of the engine that
\* holds the tier as completed, and not in an engine built from documents
\* that store the tier as completed.
C11_NoResurface ==
  [][ \A t \in Ranks :
        (IF op'.name = "construct"
         THEN get_status(store.general, t)
         ELSE get_status(agent.general_questions, t)) = "completed"
          => ~CurrentIsGeneralOf(agent', t) ]_vars

\* C12: tier completion writes completed to the current tier of the general
\* set, and to that tier of the category set exactly when the category set
\* has it; a category set without the tier is left as it is; no other
\* tier, no question, and nothing else of the engine changes.
C12_CompletionFrame ==
  LET tier_key == get_current_tier_key(agent)
      done == complete_current_tier(agent)
      g == agent.general_questions
      c == agent.category_questions
  IN  tier_key # NoTier
      => /\ DOMAIN done.general_questions = DOMAIN g
         /\ tier_key \in DOMAIN g
               => done.general_questions =
                    [g EXCEPT ![tier_key].status = "completed"]
         /\ tier_key \in DOMAIN c
               => done.category_questions =
                    [c EXCEPT ![tier_key].status = "completed"]
         /\ tier_key \notin DOMAIN c => done.category_questions = c
         /\ done = [agent EXCEPT
                      !.general_questions = done.general_questions,
                      !.category_questions = done.category_questions]

\* a submit has completed a tier that the category set, not empty, lacks
C12_Witness ==
  /\ op.name = "submit" /\ op.ok
  /\ agent.category_questions # EmptyDoc
  /\ agent.category_questions = store.category
  /\ \E t \in DOMAIN agent.general_questions :
        /\ agent.general_questions[t].status = "completed"
        /\ store.general[t].status # "completed"
        /\ t \notin DOMAIN agent.category_questions

\* C13: the submit that completes tier t leaves the engine at
\* (t+1, general, 0) with tier t+1 in_process in the general set when a next
\* tier exists, and at tier index = tier count, complete, when t is the
\* last tier; an engine that is complete stays complete, and unchanged,
\* through every later operation on it.
C13_NextTierOrTerminal ==
  [][ LET idx == agent.current_tier_idx
          count == Len(agent.tier_keys)
      IN  /\ (SubmitOk /\ agent'.current_tier_idx # idx /\ idx + 1 < count)
                => /\ Pos(agent') = <<idx + 1, "general", 0>>
                   /\ get_status(agent'.general_questions,
                                  agent.tier_keys[idx + 2]) = "in_process"
                   /\ ~is_complete(agent')
          /\ (SubmitOk /\ agent'.current_tier_idx # idx /\ idx + 1 >= count)
                => /\ agent'.current_tier_idx = count
                   /\ is_complete(agent')
          /\ (is_complete(agent) /\ op'.name # "construct")
                => /\ is_complete(agent')
                   /\ agent' = agent
                   /\ ~SubmitOk ]_vars

\* an engine that started in the first of its tiers, went through the
\* next one and became complete has been asked to record another answer
C13_Witness ==
  /\ op.name = "submit" /\ ~op.ok
  /\ Len(agent.tier_keys) = MaxTiers
  /\ is_complete(agent)
  /\ store.general[agent.tier_keys[1]].status # "completed"
  /\ store.general[agent.tier_keys[MaxTiers]].status = ""
  /\ agent.general_questions[agent.tier_keys[MaxTiers]].status = "completed"

\* the engine a load builds when the failure of read failAt empties the
\* document of that read alone
LoadedKeepingOthers(st, failAt) ==
  LET general == IF failAt = 1 THEN EmptyDoc ELSE st.general
  IN  pick_up_where_left_off(
        [NewAgent EXCEPT
           !.general_questions = general,
           !.category_questions = IF failAt = 2 THEN EmptyDoc ELSE st.category,
           !.profile_structure = IF failAt = 3 THEN {} ELSE st.profile,
           !.tier_keys = sorted(DOMAIN general)])

\* C14: a load in which one read fails yields an engine with an empty
\* structure for the document of that read and the stored content for the
\* other two.
C14_FailureIsLocal ==
  [][ (op'.name = "construct" /\ ~op'.ok)
        => \E failAt \in 1..3 : agent' = LoadedKeepingOthers(store, failAt) ]_vars

\* the three documents as the engine holds them
DocsOf(self) ==
  [profile  |-> self.profile_structure,
   general  |-> self.general_questions,
   category |-> self.category_questions]

\* C15: a save in which a write fails returns failure and leaves the
\* engine, with the answer it recorded and the position it advanced to,
\* exactly as it was before the call.
C15_FailedSaveKeepsMemory ==
  [][ (op'.name = "save" /\ ~op'.ok) => agent' = agent ]_vars

\* a failed save has left the engine ahead of every stored document
C15_Witness ==
  /\ op.name = "save" /\ ~op.ok
  /\ store.profile # agent.profile_structure
  /\ store.general # agent.general_questions
  /\ store.category # agent.category_questions
  /\ agent.current_phase = "category"

\* C16: a reply whose submit_answer succeeded attempted a save, and after a
\* save that reported success each stored document equals the structure
\* the engine holds.
C16_SaveOverwrites ==
  op.name = "reply"
    => /\ op.submitted => op.saved # "none"
       /\ op.saved = "ok" => store = DocsOf(op.self[1])

\* a successful save has stored answers of both question sets
C16_Witness ==
  /\ op.name = "reply" /\ op.saved = "ok"
  /\ \E t \in DOMAIN store.general : Flagged(store.general, t) = {}
                                       /\ store.general[t].questions # << >>
  /\ \E t \in DOMAIN store.category :
        Flagged(store.category, t) # DOMAIN store.category[t].questions
  /\ store.profile # InitProfile

\* C18: when the rephraser call of a reply fails after submit_answer and
\* the save succeeded, the session keeps the engine with the answer
\* recorded, the store holds that engine's documents, and the transcript
\* has gained, after the user's message, an assistant message that carries
\* the text of the next question or an error notice.
C18_RephraseFailureShown ==
  [][ (op'.name = "reply" /\ op'.rephrased = "failed")
        => LET self == submit_answer(session.tiered_interview_agent[1],
                                     op'.answer).self
               m == session'.interview_messages
           IN  /\ session'.tiered_interview_agent = <<self>>
               /\ store' = DocsOf(self)
               /\ Len(m) = Len(session.interview_messages) + 2
               /\ m[Len(m)].role = "assistant"
               /\ \/ m[Len(m)].kind = "rephrase_failed"
                  \/ /\ m[Len(m)].kind = "question"
                     /\ m[Len(m)].question =
                          get_current_question(self)[1].question ]_vars

\* C17: after a save that reported success every stored document equals
\* the copy of the instance that saved, whatever the other instance saved
\* before; the save of a stale instance succeeds like any other.
C17_LastWriteWins ==
  (op.name = "save" /\ op.ok) => store = DocsOf(Instance(op.who))

\* A saved, then B, loaded before A's save, saved: an answered flag, a
\* completed status and a profile value that A holds and wrote are not in
\* the store
C17_Witness ==
  /\ op.name = "save" /\ op.who = "B" /\ op.ok
  /\ "A" \in op.saved
  /\ \E t \in DOMAIN agent.general_questions :
        /\ agent.general_questions[t].status = "completed"
        /\ store.general[t].status # "completed"
  /\ \E t \in DOMAIN agent.general_questions :
        Flagged(store.general, t) \ Flagged(agent.general_questions, t) # {}
  /\ \E n \in agent.profile_structure :
        /\ n.val \in Answers
        /\ n \notin store.profile
  /\ store = DocsOf(agentB)

\* C19: when the parsed response is a scalar, or an object that has no
\* list under the key recommendations, the page shows an error and no
\* recommendation item.
C19_MalformedRejected ==
  (op.name = "recommend"
     /\ \/ op.recs.kind = "scalar"
        \/ op.recs.kind = "dict" /\ op.recs.wraps # "list")
    => /\ \E i \in DOMAIN page : page[i].kind = "error"
       /\ \A i \in DOMAIN page : page[i].kind # "item"

\* C20: no operation of the engine raises to its caller, whatever the shape
\* of the stored document: construction with its resume,
\* get_current_question, submit_answer and save_to_firestore all return.
C20_NeverRaises == ~op.raised

\* C21: no status gate applies to the category set: whatever the content of
\* the two question sets (the category set may equal the general set) and
\* whatever the status of the category tier, get_pending_questions on the
\* category set returns exactly the questions of the tier flagged pending,
\* in stored order.
C21_NoCategoryGate ==
  (op.name = "get_pending_questions" /\ op.dataset = "category")
    => /\ {op.result[i] : i \in DOMAIN op.result}
            = Flagged(agent.category_questions, op.tier_key)
       /\ \A i, j \in DOMAIN op.result : i < j => op.result[i] < op.result[j]

\* the pending list of every tier of either set names places of the stored
\* sequence, flagged pending, in increasing order
PendingInOrder(self) ==
  \A phase \in {"general", "category"}, t \in Ranks :
     LET pending == get_pending_questions(self, dataset_of(self, phase), t)
     IN  /\ \A i \in DOMAIN pending :
              pending[i] \in Flagged(dataset_of(self, phase), t)
         /\ \A i, j \in DOMAIN pending : i < j => pending[i] < pending[j]

\* C22: the pending list is always a subsequence of the stored sequence of
\* the tier, and within one instance and one phase of a tier the question
\* that becomes current after a successful submit stands later in the stored
\* sequence than the one before it; the engine never goes back to a phase
\* or a tier it has left, so no question is current twice.
C22_NeverReorders ==
  [][ /\ PendingInOrder(agent) /\ PendingInOrder(agent')
      /\ SubmitOk =>
           /\ agent'.current_tier_idx >= agent.current_tier_idx
           /\ agent'.current_tier_idx = agent.current_tier_idx
                => ~(agent.current_phase = "category"
                       /\ agent'.current_phase = "general")
           /\ ( /\ agent'.current_tier_idx = agent.current_tier_idx
                /\ agent'.current_phase = agent.current_phase
                /\ HasCurrent(agent') )
                => CurrentPlace(agent') > CurrentPlace(agent) ]_vars

\* a second question of the general phase has become current
C22_Witness ==
  /\ op.name = "submit" /\ op.ok
  /\ agent.current_phase = "general" /\ agent.current_q_idx = 1
  /\ HasCurrent(agent)
  /\ Cardinality(Flagged(agent.general_questions, get_current_tier_key(agent))) >= 2

\* C23: a successful submit for a question with field path p changes in the
\* profile tree only the value entry of the node at p and adds only empty
\* mappings for the segments of p that were missing: every other node, the
\* description of the node at p included, keeps its content, and with an
\* empty field the whole tree is unchanged.
C23_ProfileFrame ==
  [][ SubmitOk =>
        LET p == get_current_question(agent)[1].field
            vp == Append(p, "value")
            old == agent.profile_structure
            new == agent'.profile_structure
        IN  /\ p = << >> => new = old
            /\ \A n \in old \ new : IsPrefix(vp, n.path)
            /\ \A n \in new \ old :
                 \/ n = Node(vp, "scalar", op'.answer)
                 \/ /\ n = Node(n.path, "dict", "")
                    /\ IsPrefix(n.path, p) /\ n.path # << >>
                    /\ ~HasNode(old, n.path) ]_vars

\* an answer has been written into a node that has a description, and
\* another into a node that was created with its parent
C23_Witness ==
  /\ op.name = "submit" /\ op.ok
  /\ Node(<<"a", "value">>, "scalar", "Alice") \in agent.profile_structure
  /\ Node(<<"a", "description">>, "scalar", "desc") \in agent.profile_structure
  /\ Node(<<"a", "b", "value">>, "scalar", "Alice") \in agent.profile_structure

\* C24: tier_keys holds exactly the keys of the general set that are tier
\* identifiers, each once, ordered by the integer rank in the key (tier2
\* before tier10); a tier key that only the category set has is never in
\* tier_keys, so the engine never makes it the current tier.
C24_TierKeys ==
  op.name = "load_data" =>
    LET tier_keys == op.tier_keys
    IN  /\ {tier_keys[i] : i \in DOMAIN tier_keys}
             = {k \in raw.general : startswith_tier(k)}
        /\ \A i, j \in DOMAIN tier_keys :
             i < j => rank_of(tier_keys[i]) < rank_of(tier_keys[j])
        /\ \A k \in raw.category \ raw.general :
             \A i \in DOMAIN tier_keys : tier_keys[i] # k

\* the general set has tier2 and a tier of two digits, and the category set
\* has a tier the general set lacks
C24_Witness ==
  /\ op.name = "load_data"
  /\ {TierKey(2), TierKey(MaxKeyRank), OtherKey} \subseteq raw.general
  /\ TierKey(1) \in raw.category \ raw.general
  /\ Len(op.tier_keys) = 2

\* no node that is no mapping stands on the path p of the tree
Resolvable(tree, p) ==
  \A k \in 1..Len(p) : HasNode(tree, SubSeq(p, 1, k)) => IsDict(tree, SubSeq(p, 1, k))

\* the questions of a stored set the engine has marked answered
Answered(dataset) ==
  UNION { { dataset[t].questions[i] :
              i \in {j \in DOMAIN dataset[t].questions :
                       dataset[t].questions[j].qest = "answered"} }
          : t \in DOMAIN dataset }

C26_CompleteIffAllCompleted ==
  is_complete(agent)
    <=> \A i \in DOMAIN agent.tier_keys :
          get_status(agent.general_questions, agent.tier_keys[i]) = "completed"

\* the engine has answered its way through two tiers to completion
C26_Witness ==
  /\ op.name = "submit" /\ op.ok
  /\ is_complete(agent) /\ Len(agent.tier_keys) = 2
  /\ \E t \in Ranks : Flagged(agent.general_questions, t) # Flagged(store.general, t)

\* C27: between engine operations, when is_complete() is false the general
\* status of the current tier is in_process; and the engine writes no status
\* but completed to the category set: a tier of the category set has the
\* status the store holds for it, or completed.
C27_CurrentInProcess ==
  /\ ~is_complete(agent)
       => get_status(agent.general_questions, get_current_tier_key(agent))
            = "in_process"
  /\ \A t \in DOMAIN agent.category_questions :
       agent.category_questions[t].status
         \in {"completed", get_status(store.category, t)}

\* the engine has moved on to a tier that the store holds as completed in
\* the general set and without status in the category set
C27_Witness ==
  /\ op.name = "submit" /\ op.ok
  /\ agent.current_tier_idx = 1 /\ ~is_complete(agent)
  /\ get_status(store.general, get_current_tier_key(agent)) = "completed"
  /\ get_status(store.category, get_current_tier_key(agent)) = ""

\* the places <<tier, i>> of the questions whose content differs in a and b
ChangedPlaces(a, b) ==
  UNION { { <<t, i>> : i \in {j \in DOMAIN a[t].questions :
                                t \notin DOMAIN b
                                  \/ j \notin DOMAIN b[t].questions
                                  \/ a[t].questions[j] # b[t].questions[j]} }
          : t \in DOMAIN a }

\* no question of a that is answered is pending in b, and the questions of b
\* have the question and field values they have in a
FlagsOnlyForward(a, b) ==
  /\ DOMAIN a = DOMAIN b
  /\ \A t \in DOMAIN a :
       /\ DOMAIN a[t].questions = DOMAIN b[t].questions
       /\ \A i \in DOMAIN a[t].questions :
            /\ b[t].questions[i].question = a[t].questions[i].question
            /\ b[t].questions[i].field = a[t].questions[i].field
            /\ a[t].questions[i].qest = "answered"
                 => b[t].questions[i].qest = "answered"

\* C28: question flags only move forward: a submit_answer call never turns
\* an answered question pending and never changes a question or field
\* value; a successful call changes the qest of at most one question, a
\* question of the current tier in the set of the current phase; and a save
\* keeps in the store every answered flag the store has.
C28_FlagsMonotonic ==
  [][ /\ op'.name = "submit" =>
           /\ FlagsOnlyForward(agent.general_questions, agent'.general_questions)
           /\ FlagsOnlyForward(agent.category_questions, agent'.category_questions)
           /\ LET here == ChangedPlaces(phase_dataset(agent),
                                        dataset_of(agent', agent.current_phase))
                  other == IF agent.current_phase = "general" THEN "category"
                           ELSE "general"
              IN  /\ Cardinality(here) <= 1
                  /\ \A place \in here : place[1] = get_current_tier_key(agent)
                  /\ ChangedPlaces(dataset_of(agent, other),
                                   dataset_of(agent', other)) = {}
                  /\ ~op'.ok => here = {}
      /\ op'.name = "save" =>
           /\ FlagsOnlyForward(store.general, store'.general)
           /\ FlagsOnlyForward(store.category, store'.category) ]_vars

\* a question whose text another question of the tier repeats has been
\* answered, and the other question is still pending
C28_Witness ==
  /\ op.name = "submit" /\ op.ok
  /\ \E t \in DOMAIN agent.general_questions :
       \E i, j \in DOMAIN agent.general_questions[t].questions :
          /\ i # j
          /\ agent.general_questions[t].questions[i].question
               = agent.general_questions[t].questions[j].question
          /\ agent.general_questions[t].questions[i].qest = "answered"
          /\ store.general[t].questions[i].qest = "pending"
          /\ agent.general_questions[t].questions[j].qest = "pending"

\* C29: within one instance the submit_answer calls that succeed are at most
\* as many as the questions flagged pending in the two sets when the
\* instance loaded; and once a call fails every later call fails, in a
\* state that is complete or that no call changes.
C29_BoundedSuccesses ==
  /\ page.successes <= page.pending_at_load
  /\ (op.name = "submit" /\ ~op.ok)
       => \A answer \in Answers :
             LET r == submit_answer(agent, answer)
             IN  ~r.ok /\ r.self = agent

\* an instance has run to completion with one success for every question
\* that was pending when it loaded
C29_Witness ==
  /\ op.name = "submit" /\ ~op.ok /\ is_complete(agent)
  /\ page.successes = page.pending_at_load
  /\ page.successes >= 2

\* C30: search_web makes at most max_retries attempts; every attempt but the
\* last one made was rate-limited (message with 202) and was followed by a
\* wait of base_delay * 2^(attempt-1); the call returns the results of the
\* first attempt that succeeds, cut to max_results; any other search error
\* leaves the function at the attempt that met it; and when max_retries
\* attempts were all rate-limited the call ends by returning the empty list.
C30_SearchRetries ==
  page.status # "idle" =>
    LET made == Len(page.outcomes)
        limited == {i \in 1..made : page.outcomes[i] = "rate_limited"}
    IN  /\ made <= page.max_retries
        /\ \A i \in 1..(made - 1) : i \in limited
        /\ Len(page.slept) = Cardinality(limited)
        /\ \A i \in limited : page.slept[i] = page.base_delay * (2 ^ (i - 1))
        /\ page.status = "results"
             <=> (made >= 1 /\ page.outcomes[made] = "ok")
        /\ page.status = "results"
             => page.results = (IF page.found < page.max_results
                                THEN page.found ELSE page.max_results)
        /\ page.status = "raised"
             <=> (made >= 1 /\ page.outcomes[made] = "error")
        /\ page.status = "exhausted"
             => (made = page.max_retries /\ limited = 1..made /\ page.results = 0)
        /\ (made = page.max_retries /\ limited = 1..made)
             => page.status \in {"running", "exhausted"}

\* three attempts were rate-limited and the call returned the empty list
C30_Witness ==
  /\ page.status = "exhausted" /\ page.max_retries = 3
  /\ page.slept = <<page.base_delay, 2 * page.base_delay, 4 * page.base_delay>>

====
